---------------------------- MODULE Spec2Model ----------------------------
(***************************************************************************)
(* A model of src/doom_fire.py: the Fire class (the grid of pixels, its    *)
(* update, increase and decrease, the palette lookup and the rectangle     *)
(* generator).  A Python list of n items is a function on 0..n-1, so the   *)
(* indices of the model are the indices of the source.                     *)
(***************************************************************************)
EXTENDS Integers, Sequences, FiniteSets, TLC

\* ------------------------------------------------------------- bounds

\* The widest and the tallest field the model constructs.
MaxW == 2
MaxH == 3
\* The most cells (width * height) a field of the model has.
MaxCells == 6
\* How many calls (update, increase, decrease; or calls of a static method)
\* a behaviour makes.
MaxOps == 2
\* color(value) is called with value in -MaxValue..MaxValue.
MaxValue == 60
\* _rects is called with pixel_size in 1..MaxPixelSize and an offset whose
\* coordinates are in 0..MaxOffset.
MaxPixelSize == 3
MaxOffset == 2
\* A behaviour of main() begins at most MaxFrames turns of its while loop,
\* and pygame.event.get() returns at most MaxEvents events.
MaxFrames == 3
MaxEvents == 2
\* The hottest cell of the fields that are left to die out.
MaxHeat == 2
\* randint(a, b) is explored at DrawPoints values spread evenly over a..b,
\* both ends among them.
DrawPoints == 2

\* ---------------------------------------------------- module constants

LOW == <<0, 14>>
MEDIUM == <<14, 32>>
HIGH == <<32, 36>>

UPDATE_RATE == 75
PIXEL_SIZE == 5

\* A Python tuple or list written out: item k of the source is item k here.
Tuple(seq) == [k \in 0..(Len(seq) - 1) |-> seq[k + 1]]

PALETTE == Tuple(
    << <<7, 7, 7>>, <<31, 7, 7>>, <<47, 15, 7>>, <<71, 15, 7>>, <<87, 23, 7>>,
       <<103, 31, 7>>, <<119, 31, 7>>, <<143, 39, 7>>, <<159, 47, 7>>,
       <<175, 63, 7>>, <<191, 71, 7>>, <<199, 71, 7>>, <<223, 79, 7>>,
       <<223, 87, 7>>, <<223, 87, 7>>, <<215, 95, 7>>, <<215, 95, 7>>,
       <<215, 103, 15>>, <<207, 111, 15>>, <<207, 119, 15>>,
       <<207, 127, 15>>, <<207, 135, 23>>, <<199, 135, 23>>,
       <<199, 143, 23>>, <<199, 151, 31>>, <<191, 159, 31>>,
       <<191, 159, 31>>, <<191, 167, 39>>, <<191, 167, 39>>,
       <<191, 175, 47>>, <<183, 175, 47>>, <<183, 183, 47>>,
       <<183, 183, 55>>, <<207, 207, 111>>, <<223, 223, 159>>,
       <<239, 239, 199>>, <<255, 255, 255>> >>)

\* ------------------------------------------------------ Python built-ins

Max(a, b) == IF a >= b THEN a ELSE b
Min(a, b) == IF a <= b THEN a ELSE b

\* len(list) of a list held as a function on 0..n-1.
len(l) == Cardinality(DOMAIN l)

\* Whether l[k] is an item: Python counts a negative k from the end, and
\* raises IndexError outside -len..len-1.
InRange(l, k) == -len(l) <= k /\ k < len(l)

\* The position l[k] names.
Pos(l, k) == IF k < 0 THEN len(l) + k ELSE k

getitem(l, k) == l[Pos(l, k)]

setitem(l, k, v) == [l EXCEPT ![Pos(l, k)] = v]

\* random.randint(a, b): an integer of a..b, both ends included.
randint(a, b) ==
    {a + ((b - a) * k) \div (DrawPoints - 1) : k \in 0..(DrawPoints - 1)}

\* int(random() * 3): a decay of 0, 1 or 2.
Decay_upToTwo == 0..2

\* int(random() * 2): random() is in [0, 1).
Decay == 0..1

\* ---------------------------------------------------------------- state

VARIABLES
    width,       \* Fire.width
    height,      \* Fire.height
    pixel_size,  \* Fire._pixel_size
    pixels,      \* Fire.pixels
    intensity,   \* the intensity range the field was constructed with
    lastOp,      \* the last call made on the fire: "create", "update",
                 \* "increase", "decrease", "draw"
    before,      \* pixels as they were when the last call started
    draws,       \* the random draws of the last call
    writes,      \* the assignments into pixels the last update() made, in order
    paired,      \* after a decrease() that replayed the draws of the increase()
                 \* right before it: the pixels before that increase()
    nops,        \* the calls made since construction
    nupdates,    \* the update() calls made since construction
    peak,        \* the largest cell right after the construction or the last
                 \* increase()
    call,        \* the last call of draw() or of a static method: its
                 \* arguments and what it drew or returned
    pc,          \* where main() is: "poll", "events", "draw", "tick",
                 \* "returned"; "none" when main() is not running
    polled,      \* the events pygame.event.get() returned in this frame
    events,      \* those of them the for loop has not come to yet
    elapsed,     \* elapsed of main()
    frames,      \* the turns of the while loop begun
    sinceUpdate, \* the times clock.tick returned since main() last called
                 \* update(), or since it started, added up
    seen,        \* sinceUpdate when the if of this frame was evaluated, -1
                 \* before that
    frameLog     \* the calls main() made on the fire in this frame, in order

mainVars == <<pc, polled, events, elapsed, frames, sinceUpdate, seen, frameLog>>

vars == <<width, height, pixel_size, pixels, intensity, lastOp, before, draws,
          writes, paired, nops, nupdates, peak, call, pc, polled, events,
          elapsed, frames, sinceUpdate, seen, frameLog>>

fireVars == <<width, height, pixel_size, pixels, intensity, lastOp, before,
              draws, writes, paired, nops, nupdates, peak>>

\* What a call leaves alone besides the pixels and the record of the call.
fixedVars == <<width, height, pixel_size, intensity, call>>

\* The largest cell of a grid.
MaxCell(px) == CHOOSE m \in {px[k] : k \in DOMAIN px} :
                   \A k \in DOMAIN px : px[k] <= m

NoCall == [fn |-> "none", args |-> <<>>, ret |-> <<>>, nth |-> 0]

\* main() is not running.
NotRunning ==
    /\ pc = "none"
    /\ polled = <<>>
    /\ events = <<>>
    /\ elapsed = 0
    /\ frames = 0
    /\ sinceUpdate = 0
    /\ seen = -1
    /\ frameLog = <<>>

\* ------------------------------------------------------------- Fire._create

\* createStep indexing from the front: fire[i - 1] for fire[-i].
createStep_fromFront(fire, i, seed) == setitem(fire, i - 1, seed[i])

\* One turn of the loop of _create: fire[-i] = randint(*intensity).
createStep(fire, i, seed) == setitem(fire, -i, seed[i])

RECURSIVE createLoop(_, _, _, _)
createLoop(fire, i, w, seed) ==
    IF i > w THEN fire
    ELSE createLoop(createStep(fire, i, seed), i + 1, w, seed)

\* _create(width, height, intensity), seed[i] being the i-th randint.
create(w, h, seed) == createLoop([k \in 0..(w * h - 1) |-> 0], 1, w, seed)

\* ------------------------------------------------------------- Fire.update

\* The indices at which update() reaches its draw of decay: the read of
\* pixels[i + width] did not raise.
DecayIdx(px, w, h) == {i \in 0..(w * h - 1) : InRange(px, i + w)}

\* updateStep without its test "if i - decay < 0: continue": the store at -1
\* lands on the last pixel.
updateStep_noNegativeTest(st, i, w, decay) ==
    IF ~InRange(st.px, i + w) THEN st
    ELSE LET pixel_below == getitem(st.px, i + w)
             d == decay[i]
         IN  [px  |-> setitem(st.px, i - d, Max(pixel_below - d, 0)),
              log |-> Append(st.log,
                             [i |-> i, target |-> Pos(st.px, i - d),
                              below |-> i + w, decay |-> d,
                              read |-> pixel_below,
                              value |-> Max(pixel_below - d, 0)])]

\* updateStep with a read past the end taken as 0 instead of skipped.
updateStep_readPastEnd(st, i, w, decay) ==
    LET pixel_below == IF InRange(st.px, i + w) THEN getitem(st.px, i + w)
                       ELSE 0
        d == IF i \in DOMAIN decay THEN decay[i] ELSE 0
    IN  IF i - d < 0 THEN st
        ELSE [px  |-> setitem(st.px, i - d, Max(pixel_below - d, 0)),
              log |-> Append(st.log,
                             [i |-> i, target |-> Pos(st.px, i - d),
                              below |-> i + w, decay |-> d,
                              read |-> pixel_below,
                              value |-> Max(pixel_below - d, 0)])]

\* updateStep with the sign of the shift wrong: the store is at i + decay.
updateStep_driftRight(st, i, w, decay) ==
    IF ~InRange(st.px, i + w) THEN st
    ELSE LET pixel_below == getitem(st.px, i + w)
             d == decay[i]
         IN  IF i - d < 0 THEN st
             ELSE [px  |-> setitem(st.px, i + d, Max(pixel_below - d, 0)),
                   log |-> Append(st.log,
                                  [i |-> i, target |-> Pos(st.px, i + d),
                                   below |-> i + w, decay |-> d,
                                   read |-> pixel_below,
                                   value |-> Max(pixel_below - d, 0)])]

\* updateStep adding the decay to the value it carries up: the sign wrong.
updateStep_signError(st, i, w, decay) ==
    IF ~InRange(st.px, i + w) THEN st
    ELSE LET pixel_below == getitem(st.px, i + w)
             d == decay[i]
         IN  IF i - d < 0 THEN st
             ELSE [px  |-> setitem(st.px, i - d, Max(pixel_below + d, 0)),
                   log |-> Append(st.log,
                                  [i |-> i, target |-> Pos(st.px, i - d),
                                   below |-> i + w, decay |-> d,
                                   read |-> pixel_below,
                                   value |-> Max(pixel_below + d, 0)])]

\* updateStep storing at i whatever the decay: the shift to i - decay lost.
updateStep_storeAtI(st, i, w, decay) ==
    IF ~InRange(st.px, i + w) THEN st
    ELSE LET pixel_below == getitem(st.px, i + w)
             d == decay[i]
         IN  IF i - d < 0 THEN st
             ELSE [px  |-> setitem(st.px, i, Max(pixel_below - d, 0)),
                   log |-> Append(st.log,
                                  [i |-> i, target |-> Pos(st.px, i),
                                   below |-> i + w, decay |-> d,
                                   read |-> pixel_below,
                                   value |-> Max(pixel_below - d, 0)])]

\* The body of the loop of update() at index i, decay being the draws.
updateStep(st, i, w, decay) ==
    IF ~InRange(st.px, i + w) THEN st
    ELSE LET pixel_below == getitem(st.px, i + w)
             d == decay[i]
         IN  IF i - d < 0 THEN st
             ELSE [px  |-> setitem(st.px, i - d, Max(pixel_below - d, 0)),
                   log |-> Append(st.log,
                                  [i |-> i, target |-> Pos(st.px, i - d),
                                   below |-> i + w, decay |-> d,
                                   read |-> pixel_below,
                                   value |-> Max(pixel_below - d, 0)])]

\* The loop of update() run from the last index down to the first.
RECURSIVE updateLoop_descending(_, _, _, _, _)
updateLoop_descending(st, i, w, h, decay) ==
    IF i >= w * h THEN st
    ELSE updateLoop_descending(updateStep(st, w * h - 1 - i, w, decay),
                               i + 1, w, h, decay)

RECURSIVE updateLoop(_, _, _, _, _)
updateLoop(st, i, w, h, decay) ==
    IF i >= w * h THEN st
    ELSE CHOOSE r \in {updateLoop(nx, i + 1, w, h, decay) :
                           nx \in {updateStep(st, i, w, decay)}} : TRUE

\* fire.update() with the draws decay.
updateWith(decay) ==
    \E r \in {updateLoop([px |-> pixels, log |-> <<>>], 0, width, height,
                         decay)} :
        /\ lastOp' = "update"
        /\ draws' = decay
        /\ before' = pixels
        /\ pixels' = r.px
        /\ writes' = r.log
        /\ paired' = <<>>
        /\ peak' = peak

\* fire.update(), whatever it draws.
updateCall ==
    \E decay \in [DecayIdx(pixels, width, height) -> Decay] :
        updateWith(decay)

update ==
    /\ nops < MaxOps
    /\ updateCall
    /\ nops' = nops + 1
    /\ nupdates' = nupdates + 1
    /\ UNCHANGED fixedVars
    /\ UNCHANGED mainVars

\* ----------------------------------------------- Fire.increase, decrease

\* increaseStep without min(..., 36).
increaseStep_noClamp(px, i, r) == setitem(px, -i, getitem(px, -i) + r[i])

\* increaseStep clamping one short of the maximum: min(..., 35).
increaseStep_clamp35(px, i, r) ==
    setitem(px, -i, Min(getitem(px, -i) + r[i], 35))

increaseStep(px, i, r) == setitem(px, -i, Min(getitem(px, -i) + r[i], 36))

RECURSIVE increaseLoop(_, _, _, _)
increaseLoop(px, i, w, r) ==
    IF i > w THEN px
    ELSE increaseLoop(increaseStep(px, i, r), i + 1, w, r)

\* fire.increase(), whatever it draws.
increaseCall ==
    /\ \E r \in [1..width -> randint(0, 14)] :
          /\ pixels' = increaseLoop(pixels, 1, width, r)
          /\ draws' = r
    /\ lastOp' = "increase"
    /\ before' = pixels
    /\ writes' = <<>>
    /\ paired' = <<>>
    /\ peak' = MaxCell(pixels')

increase ==
    /\ nops < MaxOps
    /\ increaseCall
    /\ nops' = nops + 1
    /\ UNCHANGED nupdates
    /\ UNCHANGED fixedVars
    /\ UNCHANGED mainVars

\* decreaseStep indexing from the front: pixels[i - 1] for pixels[-i].
decreaseStep_fromFront(px, i, r) ==
    setitem(px, i - 1, Max(getitem(px, i - 1) - r[i], 0))

\* decreaseStep without max(..., 0).
decreaseStep_noFloor(px, i, r) == setitem(px, -i, getitem(px, -i) - r[i])

decreaseStep(px, i, r) == setitem(px, -i, Max(getitem(px, -i) - r[i], 0))

RECURSIVE decreaseLoop(_, _, _, _)
decreaseLoop(px, i, w, r) ==
    IF i > w THEN px
    ELSE decreaseLoop(decreaseStep(px, i, r), i + 1, w, r)

\* fire.decrease(), whatever it draws.
decreaseCall ==
    /\ \E r \in [1..width -> randint(0, 14)] :
          /\ pixels' = decreaseLoop(pixels, 1, width, r)
          /\ draws' = r
          /\ paired' = IF lastOp = "increase" /\ draws = r
                       THEN <<before>> ELSE <<>>
    /\ lastOp' = "decrease"
    /\ before' = pixels
    /\ writes' = <<>>
    /\ peak' = peak

decrease ==
    /\ nops < MaxOps
    /\ decreaseCall
    /\ nops' = nops + 1
    /\ UNCHANGED nupdates
    /\ UNCHANGED fixedVars
    /\ UNCHANGED mainVars

\* ---------------------------------------------------------- Fire.__init__

\* Fire(width=w, height=h, intensity=range, pixel_size=p).
ConstructedWith(w, h, range, p) ==
    /\ width = w
    /\ height = h
    /\ pixel_size = p
    /\ intensity = range
    /\ \E seed \in [1..w -> randint(range[1], range[2])] :
          /\ pixels = create(w, h, seed)
          /\ draws = seed
    /\ lastOp = "create"
    /\ before = pixels
    /\ writes = <<>>
    /\ paired = <<>>
    /\ nops = 0
    /\ nupdates = 0
    /\ peak = MaxCell(pixels)

\* Fire(width=w, height=h, intensity=range): pixel_size takes its default.
Constructed(w, h, range) == ConstructedWith(w, h, range, PIXEL_SIZE)

Init ==
    /\ \E w \in 1..MaxW, h \in 1..MaxH, range \in {LOW, MEDIUM, HIGH} :
          /\ w * h <= MaxCells
          /\ Constructed(w, h, range)
    /\ call = NoCall
    /\ NotRunning

Next == update \/ increase \/ decrease

Spec == Init /\ [][Next]_vars

\* ------------------------------------------ the 4x4 scenario at full heat

\* Fire(4, 4, (36, 36)) and then update(), once.
InitScenario ==
    /\ Constructed(4, 4, <<36, 36>>)
    /\ call = NoCall
    /\ NotRunning

NextScenario == lastOp = "create" /\ update

SpecScenario == InitScenario /\ [][NextScenario]_vars

\* --------------------------------------------------------------- Fire.color

\* color without v = max(value, 0): a negative value indexes from the end.
color_noFloor(value, pallete) ==
    IF InRange(pallete, value) THEN getitem(pallete, value)
    ELSE getitem(pallete, -1)

\* color whose IndexError handler returns the first entry, not the last.
color_overflowFirst(value, pallete) ==
    LET v == Max(value, 0)
    IN  IF InRange(pallete, v) THEN getitem(pallete, v)
        ELSE getitem(pallete, 0)

\* color(value, pallete): pallete[v] raises IndexError past the end, and the
\* handler returns pallete[-1].
color(value, pallete) ==
    LET v == Max(value, 0)
    IN  IF InRange(pallete, v) THEN getitem(pallete, v)
        ELSE getitem(pallete, -1)

\* The static methods are called on their own; the field is the smallest one.
InitStatic ==
    /\ Constructed(1, 1, HIGH)
    /\ call = NoCall
    /\ NotRunning

colorCall ==
    /\ call.nth < MaxOps
    /\ \E value \in (-MaxValue)..MaxValue :
          call' = [fn |-> "color", args |-> <<value>>,
                   ret |-> color(value, PALETTE), nth |-> call.nth + 1]
    /\ UNCHANGED fireVars
    /\ UNCHANGED mainVars

SpecColor == InitStatic /\ [][colorCall]_vars

\* -------------------------------------------------------------- Fire._rects

\* rect with the row and the column exchanged.
rect_swapped(i, j, p, offset) ==
    LET x0 == offset[1]
        y0 == offset[2]
    IN  <<x0 + i * p, y0 + j * p, p, p>>

\* The tuple _rects yields at row i, column j.
rect(i, j, p, offset) ==
    LET x0 == offset[1]
        y0 == offset[2]
    IN  <<x0 + j * p, y0 + i * p, p, p>>

\* for j in range(width): yield ...
RECURSIVE rectsCols(_, _, _, _, _)
rectsCols(i, j, w, p, offset) ==
    IF j >= w THEN <<>>
    ELSE <<rect(i, j, p, offset)>> \o rectsCols(i, j + 1, w, p, offset)

\* for i in range(height): ...
RECURSIVE rectsRows(_, _, _, _, _)
rectsRows(i, w, h, p, offset) ==
    IF i >= h THEN <<>>
    ELSE rectsCols(i, 0, w, p, offset) \o rectsRows(i + 1, w, h, p, offset)

\* list(_rects(width, height, pixel_size, offset)): all the generator yields.
rects(w, h, p, offset) == rectsRows(0, w, h, p, offset)

rectsCall ==
    /\ call.nth < MaxOps
    /\ \E w \in 1..MaxW, h \in 1..MaxH, p \in 1..MaxPixelSize,
          x0 \in 0..MaxOffset, y0 \in 0..MaxOffset :
          call' = [fn |-> "_rects", args |-> <<w, h, p, <<x0, y0>>>>,
                   ret |-> rects(w, h, p, <<x0, y0>>), nth |-> call.nth + 1]
    /\ UNCHANGED fireVars
    /\ UNCHANGED mainVars

SpecRects == InitStatic /\ [][rectsCall]_vars

\* list(zip(a, b)) of a list a and a generated sequence b: as many pairs as
\* the shorter of the two has elements.
zip(a, b) == [k \in 1..Min(len(a), Len(b)) |-> <<a[k - 1], b[k]>>]

\* drawRects pairing the cells with the rectangles of a height by width grid.
drawRects_transposed(px, w, h, p, offset) ==
    LET pairs == zip(px, rects(h, w, p, offset))
    IN  [k \in 1..Len(pairs) |-> <<color(pairs[k][1], PALETTE), pairs[k][2]>>]

\* The calls pygame.draw.rect(surface, color, rect) of one draw(), in order,
\* each as <<color, rect>>.
drawRects(px, w, h, p, offset) ==
    LET pairs == zip(px, rects(w, h, p, offset))
    IN  [k \in 1..Len(pairs) |-> <<color(pairs[k][1], PALETTE), pairs[k][2]>>]

\* fire.draw(surface, offset): call.ret is the sequence of rectangles drawn.
drawWith(offset) ==
    /\ call' = [fn |-> "draw", args |-> <<offset>>,
                ret |-> drawRects(pixels, width, height, pixel_size, offset),
                nth |-> call.nth + 1]
    /\ pixels' = pixels
    /\ lastOp' = "draw"
    /\ before' = pixels
    /\ draws' = <<>>
    /\ writes' = <<>>
    /\ paired' = <<>>
    /\ peak' = peak

\* fire.draw(surface, (x0, y0)), whatever the offset.
drawCall == \E x0 \in 0..MaxOffset, y0 \in 0..MaxOffset : drawWith(<<x0, y0>>)

draw ==
    /\ nops < MaxOps
    /\ drawCall
    /\ nops' = nops + 1
    /\ UNCHANGED <<width, height, pixel_size, intensity, nupdates>>
    /\ UNCHANGED mainVars

\* A fire of any pixel size, updated and drawn.
InitDraw ==
    /\ \E w \in 1..MaxW, h \in 1..MaxH, range \in {LOW, MEDIUM, HIGH},
          p \in 1..MaxPixelSize :
          /\ w * h <= MaxCells
          /\ ConstructedWith(w, h, range, p)
    /\ call = NoCall
    /\ NotRunning

NextDraw == update \/ draw

SpecDraw == InitDraw /\ [][NextDraw]_vars

\* ------------------------------------------------------------------- main

\* The events main() tells apart, and one it ignores.
QUIT == [type |-> "QUIT", key |-> "none"]
K_DOWN == [type |-> "KEYDOWN", key |-> "K_DOWN"]
K_UP == [type |-> "KEYDOWN", key |-> "K_UP"]
KEYUP == [type |-> "KEYUP", key |-> "K_UP"]

Events == {QUIT, K_DOWN, K_UP, KEYUP}

\* What pygame.event.get() may return.
EventLists == UNION {[1..n -> Events] : n \in 0..MaxEvents}

\* What clock.tick(60) may return: a frame at 60 frames per second, a slow
\* frame, a frame as long as UPDATE_RATE.
Ticks == {17, 58, 75}

\* main() up to the while loop.  The field of main() is 128 by 72 and the
\* loop does not look at its size: the field is 1 by 2 here.
InitMain ==
    /\ Constructed(1, 2, HIGH)
    /\ call = NoCall
    /\ pc = "poll"
    /\ polled = <<>>
    /\ events = <<>>
    /\ elapsed = 0
    /\ frames = 0
    /\ sinceUpdate = 0
    /\ seen = -1
    /\ frameLog = <<>>

\* while True: for event in pygame.event.get():
pollEvents ==
    /\ pc = "poll"
    /\ frames < MaxFrames
    /\ \E got \in EventLists :
          /\ polled' = got
          /\ events' = got
    /\ pc' = "events"
    /\ frames' = frames + 1
    /\ seen' = -1
    /\ frameLog' = <<>>
    /\ UNCHANGED <<elapsed, sinceUpdate>>
    /\ UNCHANGED <<fireVars, call>>

\* handleEvent going on with the next event after a QUIT.
handleEvent_quitIgnored ==
    /\ pc = "events"
    /\ events # <<>>
    /\ LET event == Head(events)
       IN  IF event.type = "QUIT"
           THEN /\ pc' = pc
                /\ UNCHANGED <<fireVars, call, frameLog>>
           ELSE IF event.type = "KEYDOWN" /\ event.key = "K_DOWN"
           THEN /\ decreaseCall
                /\ frameLog' = Append(frameLog, "decrease")
                /\ UNCHANGED <<pc, nops, nupdates, fixedVars>>
           ELSE IF event.type = "KEYDOWN" /\ event.key = "K_UP"
           THEN /\ increaseCall
                /\ frameLog' = Append(frameLog, "increase")
                /\ UNCHANGED <<pc, nops, nupdates, fixedVars>>
           ELSE UNCHANGED <<pc, fireVars, call, frameLog>>
    /\ events' = Tail(events)
    /\ UNCHANGED <<polled, elapsed, frames, sinceUpdate, seen>>

\* One turn of the for loop: the if / elif chain on the event.
handleEvent ==
    /\ pc = "events"
    /\ events # <<>>
    /\ LET event == Head(events)
       IN  IF event.type = "QUIT"
           THEN /\ pc' = "returned"
                /\ UNCHANGED <<fireVars, call, frameLog>>
           ELSE IF event.type = "KEYDOWN" /\ event.key = "K_DOWN"
           THEN /\ decreaseCall
                /\ frameLog' = Append(frameLog, "decrease")
                /\ UNCHANGED <<pc, nops, nupdates, fixedVars>>
           ELSE IF event.type = "KEYDOWN" /\ event.key = "K_UP"
           THEN /\ increaseCall
                /\ frameLog' = Append(frameLog, "increase")
                /\ UNCHANGED <<pc, nops, nupdates, fixedVars>>
           ELSE UNCHANGED <<pc, fireVars, call, frameLog>>
    /\ events' = Tail(events)
    /\ UNCHANGED <<polled, elapsed, frames, sinceUpdate, seen>>

\* checkUpdate with > for >=.
checkUpdate_strict ==
    /\ pc = "events"
    /\ events = <<>>
    /\ IF elapsed > UPDATE_RATE
       THEN /\ updateCall
            /\ elapsed' = 0
            /\ sinceUpdate' = 0
            /\ frameLog' = Append(frameLog, "update")
            /\ UNCHANGED <<nops, nupdates, fixedVars>>
       ELSE UNCHANGED <<fireVars, call, elapsed, sinceUpdate, frameLog>>
    /\ seen' = sinceUpdate
    /\ pc' = "draw"
    /\ UNCHANGED <<polled, events, frames>>

\* After the for loop: if elapsed >= UPDATE_RATE: fire.update(); elapsed = 0
checkUpdate ==
    /\ pc = "events"
    /\ events = <<>>
    /\ IF elapsed >= UPDATE_RATE
       THEN /\ updateCall
            /\ elapsed' = 0
            /\ sinceUpdate' = 0
            /\ frameLog' = Append(frameLog, "update")
            /\ UNCHANGED <<nops, nupdates, fixedVars>>
       ELSE UNCHANGED <<fireVars, call, elapsed, sinceUpdate, frameLog>>
    /\ seen' = sinceUpdate
    /\ pc' = "draw"
    /\ UNCHANGED <<polled, events, frames>>

\* screen.fill(...); fire.draw(screen); the logo; pygame.display.update()
drawFrame ==
    /\ pc = "draw"
    /\ drawWith(<<0, 0>>)
    /\ frameLog' = Append(frameLog, "draw")
    /\ pc' = "tick"
    /\ UNCHANGED <<width, height, pixel_size, intensity, nops, nupdates>>
    /\ UNCHANGED <<polled, events, elapsed, frames, sinceUpdate, seen>>

\* elapsed += clock.tick(60)
tick ==
    /\ pc = "tick"
    /\ \E ms \in Ticks :
          /\ elapsed' = elapsed + ms
          /\ sinceUpdate' = sinceUpdate + ms
    /\ pc' = "poll"
    /\ UNCHANGED <<polled, events, frames, seen, frameLog>>
    /\ UNCHANGED <<fireVars, call>>

NextMain == pollEvents \/ handleEvent \/ checkUpdate \/ drawFrame \/ tick

SpecMain == InitMain /\ [][NextMain]_vars

\* ------------------------------------------------------------ dying out

\* A dim fire of at most MaxCells - 2 cells, Fire(w, h, intensity=(0,
\* MaxHeat)), that is updated and decreased for ever and never increased.
\* nops and nupdates count the calls of the bounded behaviours only and stay
\* as they are here.
InitDying ==
    /\ \E w \in 1..MaxW, h \in 1..MaxH :
          /\ w * h <= MaxCells - 2
          /\ Constructed(w, h, <<0, MaxHeat>>)
    /\ call = NoCall
    /\ NotRunning

updateDying ==
    /\ updateCall
    /\ UNCHANGED <<nops, nupdates>>
    /\ UNCHANGED fixedVars
    /\ UNCHANGED mainVars

decreaseDying ==
    /\ decreaseCall
    /\ UNCHANGED <<nops, nupdates>>
    /\ UNCHANGED fixedVars
    /\ UNCHANGED mainVars

\* An update() in which int(random() * 2) is v at step k of the loop.
updateDrawing(k, v) ==
    /\ k \in DecayIdx(pixels, width, height)
    /\ draws' \in [DecayIdx(pixels, width, height) -> Decay]
    /\ draws'[k] = v
    /\ updateWith(draws')
    /\ UNCHANGED <<nops, nupdates>>
    /\ UNCHANGED fixedVars
    /\ UNCHANGED mainVars

\* update() goes on being called, whatever random() gives.
FairDraws_updateOnly == WF_vars(updateDying)

\* update() goes on being called and random() is fair: at every step of the
\* loop of update() the decay is 0 again and again, and 1 again and again.
FairDraws ==
    \A k \in 0..(MaxCells - 3) :
        /\ WF_vars(updateDrawing(k, 0))
        /\ WF_vars(updateDrawing(k, 1))

NextDying == updateDying \/ decreaseDying

SpecDying == InitDying /\ [][NextDying]_vars /\ FairDraws

\* =================================================================== claims

\* The indices of the bottom row, and the row and column of an index.
BottomRow == ((height - 1) * width)..(height * width - 1)
Row(k) == k \div width
Col(k) == k % width

\* C1: every cell is in 0..36, in the constructed field and after any
\* sequence of update(), increase() and decrease() calls, whatever the draws.
C1_CellsInRange == \A k \in DOMAIN pixels : pixels[k] \in 0..36

\* C1's case: an update() whose subtraction went below 0 and was floored,
\* in a field that holds a cell at the maximum.
C1_Witness ==
    /\ lastOp = "update"
    /\ \E n \in 1..Len(writes) :
          writes[n].read - writes[n].decay < 0 /\ writes[n].value = 0
    /\ \E k \in DOMAIN pixels : pixels[k] = 36

\* C2: update() leaves every bottom-row cell as it was, and none of its
\* stores lands in the bottom row (no store at a negative index).
C2_UpdateKeepsBottomRow ==
    lastOp = "update" =>
        /\ \A k \in BottomRow : pixels[k] = before[k]
        /\ \A n \in 1..Len(writes) : writes[n].target \notin BottomRow

\* C2's case: an update() that drew decay 1 at index 0 (the store it skips
\* would be at index -1) and changed cells above a burning bottom row.
C2_Witness ==
    /\ lastOp = "update"
    /\ height >= 2
    /\ draws[0] = 1
    /\ pixels # before
    /\ \A k \in BottomRow : pixels[k] > 0

\* C3: increase() and decrease() leave every cell above the bottom row as
\* it was.
C3_AdjustOnlyBottomRow ==
    lastOp \in {"increase", "decrease"} =>
        \A k \in DOMAIN pixels \ BottomRow : pixels[k] = before[k]

\* C3's case: a decrease() that changed every cell of the bottom row of a
\* field whose upper rows are alight.
C3_Witness ==
    /\ lastOp = "decrease"
    /\ height >= 2
    /\ width >= 2
    /\ \A k \in BottomRow : pixels[k] # before[k]
    /\ \E k \in DOMAIN pixels \ BottomRow : pixels[k] > 0

\* C4, as stated: after Fire(4, 4, (36, 36)) and one update(), the bottom row
\* is all 36 and every cell above it is 35 or 36.
C4_Original ==
    lastOp = "update" =>
        /\ \A k \in BottomRow : pixels[k] = 36
        /\ \A k \in DOMAIN pixels \ BottomRow : pixels[k] \in {35, 36}

\* C4, amended: after Fire(4, 4, (36, 36)) and one update(), the bottom row
\* is all 36; every cell of the row right above it is 35, 36 or still 0, and
\* its last cell is 36 or 0; the last cell of the row above that is 35 or 0;
\* every other cell is still 0.
C4_OneUpdateFromFullHeat ==
    lastOp = "update" =>
        /\ \A k \in BottomRow : pixels[k] = 36
        /\ \A k \in DOMAIN pixels \ BottomRow :
              pixels[k] \in
                 IF Row(k) = height - 2 /\ Col(k) < width - 1 THEN {0, 35, 36}
                 ELSE IF Row(k) = height - 2 THEN {0, 36}
                 ELSE IF Row(k) = height - 3 /\ Col(k) = width - 1 THEN {0, 35}
                 ELSE {0}

\* C4's case: one update() of the 4x4 field at full heat that left a cell
\* of the third row at 0, set others to 35 and 36, and carried a 35 into
\* the last cell of the second row.
C4_Witness ==
    /\ width = 4 /\ height = 4 /\ intensity = <<36, 36>>
    /\ lastOp = "update" /\ nops = 1
    /\ pixels[7] = 35
    /\ pixels[11] = 0
    /\ \E k \in 8..10 : pixels[k] = 35
    /\ \E k \in 8..10 : pixels[k] = 36

\* C5, as stated: every store of update() puts into a cell of row r a value
\* read in row r + 1 (the cell right below the stored one, or the one a
\* column beside it), less the decay and floored at 0; no store crosses a
\* row boundary.
C5_Original ==
    lastOp = "update" =>
        \A n \in 1..Len(writes) :
            LET wr == writes[n]
            IN  /\ Row(wr.below) = Row(wr.target) + 1
                /\ Row(wr.target) = Row(wr.i)
                /\ wr.value = Max(before[wr.below] - wr.decay, 0)

\* C5, amended: every store of update() puts into cell t the value the cell
\* t + width + d held before the pass, less d and floored at 0, d in {0, 1}
\* being the decay drawn; that cell is in the row right below the row of t,
\* except when d = 1 and t is the last cell of its row: then it is the first
\* cell two rows below t, and the store has crossed a row boundary.
C5_StoresFromBelow ==
    lastOp = "update" =>
        \A n \in 1..Len(writes) :
            LET wr == writes[n]
                crossed == wr.decay = 1 /\ Col(wr.target) = width - 1
            IN  /\ wr.decay \in {0, 1}
                /\ wr.below = wr.target + width + wr.decay
                /\ wr.below \in DOMAIN pixels
                /\ wr.value = Max(before[wr.below] - wr.decay, 0)
                /\ Row(wr.below) = Row(wr.target) + (IF crossed THEN 2 ELSE 1)
                /\ Row(wr.target) = Row(wr.i) - (IF crossed THEN 1 ELSE 0)

\* C5's case: an update() of a field two wide and three high that stored,
\* with decay 1, a burning value read at the first cell of the bottom row
\* into the last cell of the top row.
C5_Witness ==
    /\ lastOp = "update"
    /\ width = 2 /\ height = 3
    /\ \E n \in 1..Len(writes) :
          /\ writes[n].decay = 1
          /\ writes[n].target = 1
          /\ writes[n].below = 4
          /\ writes[n].value > 0

\* C6: increase() and then decrease() with the same draw r per column puts
\* every bottom-row cell back at the value v it had before increase(),
\* except a cell whose sum was clamped (v + r > 36), which ends at 36 - r.
C6_IncreaseThenDecrease ==
    paired # <<>> =>
        /\ lastOp = "decrease"
        /\ \A j \in 1..width :
              LET k == width * height - j
                  v == paired[1][k]
                  r == draws[j]
              IN  pixels[k] = IF v + r > 36 THEN 36 - r ELSE v

\* C6's case: a decrease() replaying the draws of the increase() before it,
\* with one column restored after a sum within range and another column
\* left at 36 - r after a clamped sum.
C6_Witness ==
    /\ paired # <<>>
    /\ \E j \in 1..width :
          LET k == width * height - j
          IN  draws[j] > 0 /\ paired[1][k] + draws[j] <= 36
              /\ pixels[k] = paired[1][k]
    /\ \E j \in 1..width :
          LET k == width * height - j
          IN  draws[j] > 0 /\ paired[1][k] + draws[j] > 36
              /\ pixels[k] = 36 - draws[j] /\ pixels[k] # paired[1][k]

\* C7: color(value) with the default palette is PALETTE[0] = (7, 7, 7) for
\* value < 0, PALETTE[value] for 0 <= value <= 36 and PALETTE[36] =
\* (255, 255, 255) for value >= 36; the palette has 37 entries.
C7_ColorSaturates ==
    /\ len(PALETTE) = 37
    /\ PALETTE[0] = <<7, 7, 7>>
    /\ PALETTE[36] = <<255, 255, 255>>
    /\ call.fn = "color" =>
          LET value == call.args[1]
          IN  call.ret = IF value < 0 THEN PALETTE[0]
                         ELSE IF value <= 36 THEN PALETTE[value]
                         ELSE PALETTE[36]

\* C7's case: color(-1), which a lookup at a negative index would answer
\* with the last entry.
C7_Witness ==
    /\ call.fn = "color"
    /\ call.args[1] = -1
    /\ call.ret = <<7, 7, 7>>

\* The brightness of a colour: the integer luma, and the plain sum.
Luma(c) == 299 * c[1] + 587 * c[2] + 114 * c[3]
Sum(c) == c[1] + c[2] + c[3]

\* The palette entry color(value) answers with.
Entry(value) == Max(Min(value, 36), 0)

\* C8, as stated: for all u <= v, color(u) is no brighter than color(v), by
\* the luma and by the plain sum.
C8_Original ==
    call.fn = "color" =>
        \A u \in (-MaxValue)..MaxValue :
            u <= call.args[1] =>
                /\ Luma(color(u, PALETTE)) <= Luma(call.ret)
                /\ Sum(color(u, PALETTE)) <= Sum(call.ret)

\* C8, amended: for all u <= v, color(u) is no brighter than color(v), by the
\* luma and by the plain sum, unless the two are the entries 21 and 22 or 29
\* and 30 of the palette: there red falls by 8 with green and blue equal.
\* Green and blue are each non-decreasing for all u <= v.
C8_BrightnessMonotoneButTwoSteps ==
    call.fn = "color" =>
        \A u \in (-MaxValue)..MaxValue :
            u <= call.args[1] =>
                LET cu == color(u, PALETTE)
                    cv == call.ret
                IN  /\ cu[2] <= cv[2]
                    /\ cu[3] <= cv[3]
                    /\ IF <<Entry(u), Entry(call.args[1])>>
                              \in {<<21, 22>>, <<29, 30>>}
                       THEN cu[1] = cv[1] + 8 /\ cu[2] = cv[2] /\ cu[3] = cv[3]
                       ELSE Luma(cu) <= Luma(cv) /\ Sum(cu) <= Sum(cv)

\* C8's case: color(22), darker than color(21) = (207, 135, 23).
C8_Witness ==
    /\ call.fn = "color"
    /\ call.args[1] = 22
    /\ call.ret = <<199, 135, 23>>
    /\ Luma(color(21, PALETTE)) > Luma(call.ret)

\* C9: _rects(width, height, pixel_size, (x0, y0)) yields width * height
\* rectangles, the k-th (from 0) being (x0 + (k mod width) * pixel_size,
\* y0 + (k div width) * pixel_size, pixel_size, pixel_size), on a first call
\* and on a later one alike.
C9_RectsRowMajor ==
    call.fn = "_rects" =>
        LET w == call.args[1]
            h == call.args[2]
            p == call.args[3]
            x0 == call.args[4][1]
            y0 == call.args[4][2]
        IN  /\ Len(call.ret) = w * h
            /\ \A k \in 0..(w * h - 1) :
                  call.ret[k + 1] =
                      <<x0 + (k % w) * p, y0 + (k \div w) * p, p, p>>
            /\ call.ret[1] = <<x0, y0, p, p>>
            /\ call.ret[w * h] =
                  <<x0 + (w - 1) * p, y0 + (h - 1) * p, p, p>>

\* C9's case: a second call of _rects, for a field two wide and three high
\* at offset (0, 0), that yielded six rectangles from (0, 0, p, p) to
\* (p, 2p, p, p).
C9_Witness ==
    /\ call.fn = "_rects"
    /\ call.nth = 2
    /\ call.args[1] = 2 /\ call.args[2] = 3 /\ call.args[4] = <<0, 0>>
    /\ Len(call.ret) = 6
    /\ call.ret[1] = <<0, 0, call.args[3], call.args[3]>>
    /\ call.ret[6] = <<call.args[3], 2 * call.args[3], call.args[3],
                       call.args[3]>>

\* C10: in a field of height 1, update() changes no cell and stores nothing.
C10_HeightOneUnchanged ==
    (height = 1 /\ lastOp = "update") => (pixels = before /\ writes = <<>>)

\* C10's case: update() on a burning field one row high and two wide.
C10_Witness ==
    /\ height = 1
    /\ width = 2
    /\ lastOp = "update"
    /\ \A k \in DOMAIN pixels : pixels[k] > 0

\* C11: the grid has width * height cells, always; right after construction
\* every cell above the bottom row is 0 and every bottom-row cell is in
\* min..max of the intensity range.
C11_Constructed ==
    /\ len(pixels) = width * height
    /\ DOMAIN pixels = 0..(width * height - 1)
    /\ lastOp = "create" =>
          /\ \A k \in DOMAIN pixels \ BottomRow : pixels[k] = 0
          /\ \A k \in BottomRow : pixels[k] \in intensity[1]..intensity[2]

\* C11's case: a freshly constructed field two wide and three high of
\* intensity MEDIUM, one bottom cell at the minimum, the other at the maximum.
C11_Witness ==
    /\ lastOp = "create"
    /\ width = 2 /\ height = 3
    /\ intensity = <<14, 32>>
    /\ pixels[4] = 14 /\ pixels[5] = 32

\* C12: draw() draws one rectangle per cell, width * height in all, in
\* row-major order: the k-th (k from 0) has the color color(pixels[k]) and
\* is the k-th rectangle of _rects, so the cell at (row, col) is painted at
\* (x0 + col * pixel_size, y0 + row * pixel_size); draw() leaves the grid as
\* it was.
C12_DrawRowMajor ==
    lastOp = "draw" =>
        LET offset == call.args[1]
            all    == rects(width, height, pixel_size, offset)
        IN  /\ pixels = before
            /\ Len(call.ret) = width * height
            /\ \A k \in 0..(width * height - 1) :
                  /\ call.ret[k + 1] = <<color(pixels[k], PALETTE), all[k + 1]>>
                  /\ call.ret[k + 1][1] = PALETTE[pixels[k]]
                  /\ call.ret[k + 1][2] =
                        <<offset[1] + Col(k) * pixel_size,
                          offset[2] + Row(k) * pixel_size,
                          pixel_size, pixel_size>>

\* C12's case: a field two wide and three high drawn after an update() set
\* its middle row alight, at an offset of unequal, non-zero coordinates.
C12_Witness ==
    /\ lastOp = "draw"
    /\ width = 2 /\ height = 3
    /\ nupdates = 1
    /\ pixels[2] > 0 /\ pixels[2] # pixels[5]
    /\ call.args[1] = <<1, 2>>
    /\ call.ret[6] = <<PALETTE[pixels[5]],
                       <<1 + pixel_size, 2 + 2 * pixel_size,
                         pixel_size, pixel_size>>>>

\* C13: increase() sets each bottom-row cell to min(old + r, 36), r in 0..14
\* drawn per column, so the cell does not fall and rises by at most 14;
\* decrease() sets it to max(old - r, 0), so the cell does not rise and falls
\* by at most 14.
C13_AdjustByDraw ==
    /\ lastOp = "increase" =>
          \A j \in 1..width :
              LET k == width * height - j
              IN  /\ draws[j] \in 0..14
                  /\ pixels[k] = Min(before[k] + draws[j], 36)
                  /\ before[k] <= pixels[k]
                  /\ pixels[k] <= before[k] + 14
    /\ lastOp = "decrease" =>
          \A j \in 1..width :
              LET k == width * height - j
              IN  /\ draws[j] \in 0..14
                  /\ pixels[k] = Max(before[k] - draws[j], 0)
                  /\ pixels[k] <= before[k]
                  /\ before[k] <= pixels[k] + 14

\* C13's case: a decrease() that drew differently for its two columns, left
\* a burning cell as it was with a draw of 0 and floored the other at 0.
C13_Witness ==
    /\ lastOp = "decrease"
    /\ width = 2
    /\ draws[1] # draws[2]
    /\ \E j \in 1..width :
          /\ draws[j] = 0
          /\ before[width * height - j] > 0
          /\ pixels[width * height - j] = before[width * height - j]
    /\ \E j \in 1..width :
          /\ before[width * height - j] - draws[j] < 0
          /\ pixels[width * height - j] = 0

\* An update that reads every value in snap, the grid as it was before the
\* pass, and stores into cur in the order of update().
RECURSIVE SnapshotUpdate(_, _, _, _, _, _)
SnapshotUpdate(cur, snap, i, w, h, decay) ==
    IF i >= w * h THEN cur
    ELSE IF i + w >= w * h THEN SnapshotUpdate(cur, snap, i + 1, w, h, decay)
    ELSE IF i - decay[i] < 0 THEN SnapshotUpdate(cur, snap, i + 1, w, h, decay)
    ELSE SnapshotUpdate(
             [cur EXCEPT ![i - decay[i]] = Max(snap[i + w] - decay[i], 0)],
             snap, i + 1, w, h, decay)

\* C14: in one pass of update() the cell read at a step was stored by no
\* earlier step of the pass, so every value read is the one the cell held
\* before the pass, and the pass ends with the grid an update reading from a
\* snapshot taken before the pass ends with, for the same draws.
C14_ReadsUntouchedCells ==
    lastOp = "update" =>
        /\ \A n \in 1..Len(writes) :
              /\ \A m \in 1..(n - 1) : writes[m].target # writes[n].below
              /\ writes[n].read = before[writes[n].below]
        /\ pixels = SnapshotUpdate(before, before, 0, width, height, draws)

\* C14's case: an update() of a field three high that carried a burning
\* value into the top row from a cell the same pass then stored another
\* value into.
C14_Witness ==
    /\ lastOp = "update"
    /\ height = 3
    /\ \E n \in 1..Len(writes) :
          /\ writes[n].target < width
          /\ writes[n].value > 0
          /\ pixels[writes[n].below] # before[writes[n].below]

\* The events of this frame the for loop has been through.
Handled == SubSeq(polled, 1, Len(polled) - Len(events))

\* How many times a call is in a frame's log.
Times(log, fn) == Cardinality({n \in 1..Len(log) : log[n] = fn})

\* C15: main() calls update() in a frame exactly when the times clock.tick
\* returned since the update() before (or since the start) add up to at
\* least 75, at most once in a frame, and elapsed is 0 right after the call.
\* A frame is a turn of the while loop that comes to the if and draws; a
\* turn that a QUIT ends is C16's.
C15_UpdateCadence ==
    pc # "none" =>
        /\ elapsed = sinceUpdate
        /\ pc \in {"events", "returned"} => Times(frameLog, "update") = 0
        /\ pc \in {"draw", "tick"} =>
              Times(frameLog, "update") =
                  IF seen >= UPDATE_RATE THEN 1 ELSE 0
        /\ (pc = "draw" /\ seen >= UPDATE_RATE) =>
              (lastOp = "update" /\ elapsed = 0)

\* C15's case: in its third frame main() has just called update(), 17 + 58
\* = 75 having gone by since it started.
C15_Witness ==
    /\ pc = "draw"
    /\ frames = 3
    /\ seen = UPDATE_RATE
    /\ lastOp = "update"
    /\ elapsed = 0

\* The calls the for loop makes for a list of events: none from a QUIT on.
RECURSIVE CallsFor(_)
CallsFor(evs) ==
    IF evs = <<>> \/ Head(evs) = QUIT THEN <<>>
    ELSE (IF Head(evs) = K_UP THEN <<"increase">>
          ELSE IF Head(evs) = K_DOWN THEN <<"decrease">>
          ELSE <<>>) \o CallsFor(Tail(evs))

\* C16: in a frame main() calls increase() once for each K_UP keydown and
\* decrease() once for each K_DOWN keydown, in the order of the events and
\* before the update() and the draw() of the frame; a QUIT ends main(): it
\* makes no call after it, not for the events behind the QUIT either.
C16_EventsThenQuit ==
    /\ [](pc # "none" =>
            LET calls == CallsFor(Handled)
            IN  /\ Len(frameLog) >= Len(calls)
                /\ SubSeq(frameLog, 1, Len(calls)) = calls
                /\ \A n \in (Len(calls) + 1)..Len(frameLog) :
                      frameLog[n] \in {"update", "draw"}
                /\ pc \in {"events", "returned"} => frameLog = calls
                /\ pc = "returned" <=>
                      \E n \in 1..Len(Handled) : Handled[n] = QUIT)
    /\ [][pc # "returned"]_vars

\* C16's case: main() returned at a QUIT with a K_UP keydown behind it, in a
\* frame in which an update() was due.
C16_Witness ==
    /\ pc = "returned"
    /\ polled = <<QUIT, K_UP>>
    /\ events = <<K_UP>>
    /\ elapsed >= UPDATE_RATE
    /\ frameLog = <<>>

\* C17: update() does not raise the largest cell of the grid, and over
\* update() and decrease() calls no cell exceeds the largest cell the grid
\* had before them, right after the construction or the last increase().
C17_UpdateOnlyCools ==
    /\ lastOp \in {"update", "decrease"} =>
          MaxCell(pixels) <= MaxCell(before)
    /\ \A k \in DOMAIN pixels : pixels[k] <= peak

\* C17's case: a second update() in a row that carried the largest value of
\* the grid, undiminished, into a cell above the bottom row.
C17_Witness ==
    /\ lastOp = "update"
    /\ nupdates = 2
    /\ peak > 0
    /\ \E k \in DOMAIN pixels \ BottomRow : pixels[k] = peak

AllZero == \A k \in DOMAIN pixels : pixels[k] = 0
BottomRowZero == \A k \in BottomRow : pixels[k] = 0

\* C18: once every bottom-row cell is 0, with no increase() called from then
\* on and the decay draws fair, repeated update() leads to the grid whose
\* cells are all 0; an update() of that grid leaves it as it is.
C18_DiesOut ==
    /\ BottomRowZero ~> AllZero
    /\ [][(AllZero /\ lastOp' = "update") => pixels' = pixels]_vars

\* C18's case: an update() of a field three high whose bottom row was 0 and
\* whose top row was alight put out its last burning cell.
C18_Witness ==
    /\ lastOp = "update"
    /\ height = 3
    /\ \A k \in BottomRow : before[k] = 0
    /\ \E k \in 0..(width - 1) : before[k] > 0
    /\ AllZero

\* The lowest index of a burning cell; the length of the grid if none burns.
LowestAlight(px) ==
    IF \A k \in DOMAIN px : px[k] = 0 THEN len(px)
    ELSE CHOOSE k \in DOMAIN px :
             /\ px[k] > 0
             /\ \A j \in DOMAIN px : px[j] > 0 => k <= j

\* C19: an update() brings the lowest burning index down by at most
\* width + 1; and after k update() calls, with increase() and decrease()
\* calls between them or not, every cell of index below (height - 1) *
\* width - k * (width + 1) is 0.
C19_FlameFront ==
    /\ [](\A k \in DOMAIN pixels :
            k < (height - 1) * width - nupdates * (width + 1)
                => pixels[k] = 0)
    /\ [][lastOp' = "update" =>
              LowestAlight(pixels') >= LowestAlight(pixels) - (width + 1)]_vars

\* C19's case: one update() and then an increase() of a field two wide and
\* three high: the cell at the bound, index 1, is alight and cell 0 is not.
C19_Witness ==
    /\ lastOp = "increase"
    /\ nupdates = 1
    /\ width = 2 /\ height = 3
    /\ pixels[1] > 0
    /\ pixels[0] = 0

=============================================================================
